---- MODULE Spec2Model ----
(***************************************************************************)
(* A model of the DCT watermark codec of secure_stream/watermarking.py:    *)
(* the bit framer (_encode_message / _decode_message) and the engine       *)
(* (embed_watermark / extract_watermark).                                  *)
(*                                                                         *)
(* Python values are modelled as follows.                                  *)
(*   str            a sequence of Unicode code points                      *)
(*   bytes, list    a sequence of naturals                                 *)
(*   a call result  a record [tag, val]: tag "str" with the code points,   *)
(*                  tag "None", or the name of the exception that left the *)
(*                  call                                                   *)
(*   a frame        [height, width, y]: y maps the top-left corner of      *)
(*                  every whole block of the luma plane to the three DCT   *)
(*                  coefficients [4,4], [4,5], [5,4] of that block.  The   *)
(*                  colour conversion and the DCT/inverse-DCT pair are     *)
(*                  taken as exact, so a coefficient written by embed is   *)
(*                  the coefficient read by extract.                       *)
(***************************************************************************)
EXTENDS Integers, Sequences, FiniteSets, TLC

VARIABLES engine, other, calls, frame, wframe, op, msg, data, tamper, arg, ret,
          lsb, conn, limiter, http

\* the DCT engine and its callers
engineVars == <<engine, other, calls, frame, wframe, op, msg, data, tamper, arg, ret>>

\* the LSB watermarker, the connection manager, the rate limiter, the endpoints
serviceVars == <<lsb, conn, limiter, http>>

vars == <<engineVars, serviceVars>>

(***************************************************************************)
(* Bounds of the model.                                                    *)
(***************************************************************************)
\* longest message, in code points
MaxMsgLen == 2
\* longest run of arbitrary bits (garbage input, trailing bits)
MaxGarbageLen == 3
\* largest length prefix of a hand-built bit frame
MaxPrefix == 3
\* longest payload of a hand-built bit frame, in bytes
MaxPayload == 2
\* longest embedded message, in code points
MaxEmbedLen == 1
\* callers that share one engine
NumCallers == 2
\* websockets that connect to the manager
NumSockets == 3
\* requests served in one behaviour
MaxRequests == 2
\* files and registrations of one batch
MaxFiles == 2
\* ticks of the clock in one minute
TicksPerMinute == 2
\* last tick of the clock
MaxTime == 4
\* calls of check_rate_limit in one behaviour
MaxCalls == 4

\* 'A', e-acute, the euro sign, an emoji: 1, 2, 3 and 4 UTF-8 bytes
Alphabet == {65, 233, 8364, 128512}

\* payload bytes of hand-built bit frames: ASCII, a lead byte, a
\* continuation byte, a byte no UTF-8 text holds
RawBytes == {0, 65, 195, 169, 255}

RECURSIVE SeqsUpTo(_, _)
SeqsUpTo(S, n) ==
    IF n = 0 THEN {<<>>}
    ELSE LET shorter == SeqsUpTo(S, n - 1)
         IN  shorter \cup {Append(s, x) : s \in {t \in shorter : Len(t) = n - 1}, x \in S}

Messages == SeqsUpTo(Alphabet, MaxMsgLen)
EmbedMessages == SeqsUpTo(Alphabet, MaxEmbedLen)

Min(a, b) == IF a < b THEN a ELSE b

(***************************************************************************)
(* Python results.                                                         *)
(***************************************************************************)
None == [tag |-> "None", val |-> <<>>]
Str(cps) == [tag |-> "str", val |-> cps]
Raised(exc) == [tag |-> exc, val |-> <<>>]
IsRaised(r) == r.tag \notin {"str", "None"}

(***************************************************************************)
(* str.encode('utf-8') and bytes.decode('utf-8').                          *)
(***************************************************************************)
Utf8Char(cp) ==
    IF cp < 128 THEN <<cp>>
    ELSE IF cp < 2048 THEN <<192 + (cp \div 64), 128 + (cp % 64)>>
    ELSE IF cp < 65536
         THEN <<224 + (cp \div 4096), 128 + ((cp \div 64) % 64), 128 + (cp % 64)>>
    ELSE <<240 + (cp \div 262144), 128 + ((cp \div 4096) % 64),
           128 + ((cp \div 64) % 64), 128 + (cp % 64)>>

RECURSIVE Utf8Encode(_)
Utf8Encode(s) ==
    IF s = <<>> THEN <<>> ELSE Utf8Char(Head(s)) \o Utf8Encode(Tail(s))

IsCont(b) == b >= 128 /\ b <= 191

\* the strict decoder: [ok, cps]; ok is FALSE where Python raises
\* UnicodeDecodeError
RECURSIVE Utf8Decode(_)
Utf8Decode(bs) ==
    IF bs = <<>> THEN [ok |-> TRUE, cps |-> <<>>]
    ELSE
      LET b1 == bs[1]
          n  == Len(bs)
          need == IF b1 < 128 THEN 1
                  ELSE IF b1 >= 194 /\ b1 <= 223 THEN 2
                  ELSE IF b1 >= 224 /\ b1 <= 239 THEN 3
                  ELSE IF b1 >= 240 /\ b1 <= 244 THEN 4
                  ELSE 0
          wellFormed ==
              /\ need > 0
              /\ n >= need
              /\ \A k \in 2..need : IsCont(bs[k])
              /\ (b1 = 224 => bs[2] >= 160)
              /\ (b1 = 237 => bs[2] <= 159)
              /\ (b1 = 240 => bs[2] >= 144)
              /\ (b1 = 244 => bs[2] <= 143)
          cp == IF need = 1 THEN b1
                ELSE IF need = 2 THEN (b1 - 192) * 64 + (bs[2] - 128)
                ELSE IF need = 3
                     THEN (b1 - 224) * 4096 + (bs[2] - 128) * 64 + (bs[3] - 128)
                ELSE (b1 - 240) * 262144 + (bs[2] - 128) * 4096
                     + (bs[3] - 128) * 64 + (bs[4] - 128)
      IN  IF ~wellFormed THEN [ok |-> FALSE, cps |-> <<>>]
          ELSE LET rest == Utf8Decode(SubSeq(bs, need + 1, n))
               IN  IF rest.ok THEN [ok |-> TRUE, cps |-> <<cp>> \o rest.cps]
                   ELSE rest

(***************************************************************************)
(* Integer helpers of the framer.                                          *)
(***************************************************************************)
RECURSIVE Pow2(_)
Pow2(n) == IF n = 0 THEN 1 ELSE 2 * Pow2(n - 1)

RECURSIVE BitOr(_, _)
BitOr(a, b) ==
    IF a = 0 THEN b
    ELSE IF b = 0 THEN a
    ELSE (2 * BitOr(a \div 2, b \div 2)) + (IF a % 2 = 1 \/ b % 2 = 1 THEN 1 ELSE 0)

RECURSIVE SumSeq(_)
SumSeq(s) == IF s = <<>> THEN 0 ELSE Head(s) + SumSeq(Tail(s))

\* sum(message_bytes) % 256
Checksum(message_bytes) == SumSeq(message_bytes) % 256

\* mutant of ByteBits: least significant bit first, (byte >> i) & 1
ByteBitsLsbFirst(byte) == [i \in 1..8 |-> (byte \div Pow2(i - 1)) % 2]

\* the eight bits of one byte, most significant first: (byte >> (7-i)) & 1
ByteBits(byte) == [i \in 1..8 |-> (byte \div Pow2(8 - i)) % 2]

RECURSIVE BitsOfBytes(_)
BitsOfBytes(bs) ==
    IF bs = <<>> THEN <<>> ELSE ByteBits(Head(bs)) \o BitsOfBytes(Tail(bs))

\* mutant of LengthBytes: byteorder='little'
LengthBytesLittleEndian(length) == <<length % 256, length \div 256>>

\* length.to_bytes(2, byteorder='big')
LengthBytes(length) == <<length \div 256, length % 256>>

(***************************************************************************)
(* WatermarkEngine._encode_message                                         *)
(***************************************************************************)
EncodeMessage(message) ==
    LET message_bytes == Utf8Encode(message)
        length        == Len(message_bytes)
        bytes_        == LengthBytes(length) \o <<Checksum(message_bytes)>> \o message_bytes
    IN  BitsOfBytes(bytes_)

\* the largest length that length.to_bytes(2, byteorder='big') accepts
MaxEncodable == 65535

\* len(message.encode('utf-8')), counted without building the bytes
Utf8Len(message) ==
    Len(message)
    + Len(SelectSeq(message, LAMBDA cp : cp >= 128))
    + Len(SelectSeq(message, LAMBDA cp : cp >= 2048))
    + Len(SelectSeq(message, LAMBDA cp : cp >= 65536))

\* the exception that leaves _encode_message (line 30 raises OverflowError
\* when the length does not fit two bytes), None when the call returns
EncodeError(message) ==
    IF Utf8Len(message) > MaxEncodable THEN Raised("OverflowError") ELSE None

(***************************************************************************)
(* WatermarkEngine._decode_message                                         *)
(***************************************************************************)
\* lines 58-61: the byte packed from data[i], ..., data[i+7] (i counts from
\* 0), as many of them as the list holds
RECURSIVE PackFrom(_, _, _, _)
PackFrom(data_, i, j, byte) ==
    IF j = 8 \/ i + j >= Len(data_) THEN byte
    ELSE PackFrom(data_, i, j + 1, BitOr(2 * byte, data_[i + j + 1]))

\* mutant of PackedValues: the groups of eight are aligned to the end of the
\* list
PackedValuesFromEnd(data_) ==
    LET lead   == (8 - (Len(data_) % 8)) % 8
        padded == [k \in 1..lead |-> 0] \o data_
    IN  [g \in 1..(Len(padded) \div 8) |-> PackFrom(padded, 8 * (g - 1), 0, 0)]

\* lines 56-62 without the append: one packed value per group of eight
PackedValues(data_) ==
    [g \in 1..((Len(data_) + 7) \div 8) |-> PackFrom(data_, 8 * (g - 1), 0, 0)]

\* mutant of DecodeBody: the checksum comparison of lines 73-76 is left out
DecodeBodyNoVerify(data_) ==
    LET packed == PackedValues(data_)
    IN  IF \E g \in DOMAIN packed : packed[g] > 255
        THEN Raised("ValueError")
        ELSE
          LET length        == (256 * packed[1]) + packed[2]
              message_bytes == SubSeq(packed, 4, Min(3 + length, Len(packed)))
              text          == Utf8Decode(message_bytes)
          IN  IF ~text.ok THEN Raised("UnicodeDecodeError") ELSE Str(text.cps)

\* lines 54-79, the body of the try block: a result, or the exception
\* raised inside it
DecodeBody(data_) ==
    LET packed == PackedValues(data_)
    IN  IF \E g \in DOMAIN packed : packed[g] > 255
        THEN Raised("ValueError")
        ELSE
          LET bytes_data        == packed
              length            == (256 * bytes_data[1]) + bytes_data[2]
              stored_checksum   == bytes_data[3]
              message_bytes     == SubSeq(bytes_data, 4, Min(3 + length, Len(bytes_data)))
              calculated_checksum == Checksum(message_bytes)
              text              == Utf8Decode(message_bytes)
          IN  IF calculated_checksum # stored_checksum THEN None
              ELSE IF ~text.ok THEN Raised("UnicodeDecodeError")
              ELSE Str(text.cps)

\* mutant of TryDecode: no except clause, the exception leaves the call
TryDecodeUncaught(data_) == DecodeBody(data_)

\* lines 54 and 81-82: every exception of the body becomes None
TryDecode(data_) ==
    LET r == DecodeBody(data_) IN IF IsRaised(r) THEN None ELSE r

DecodeMessage(data_) ==
    IF Len(data_) < 24 THEN None ELSE TryDecode(data_)

(***************************************************************************)
(* The engine: block grid, embed_watermark, extract_watermark.             *)
(***************************************************************************)
\* default of the constructor's strength parameter
DefaultStrength == 80

\* __init__ draws self.key at random (128 bits in the code; the model keeps
\* two bits of it, no operation reads the key)
Keys == {<<0, 1>>, <<1, 1>>}

BlockSizes == {8, 16}

\* __init__(self, block_size, strength): lines 17-19
WatermarkEngine(block_size, strength, key) ==
    [block_size |-> block_size, strength |-> strength, key |-> key]

\* no second instance is built
NoEngine == [block_size |-> 0, strength |-> 0, key |-> <<>>]

\* range(0, n - block_size + 1, block_size) as a sequence
RangeStarts(n, block_size) ==
    [k \in 1..(IF n < block_size THEN 0 ELSE n \div block_size) |-> (k - 1) * block_size]

\* mutant of BlockPositions: columns outside, rows inside
BlockPositionsColumnMajor(height, width, block_size) ==
    LET rows == RangeStarts(height, block_size)
        cols == RangeStarts(width, block_size)
        nr   == Len(rows)
    IN  [k \in 1..(nr * Len(cols)) |->
            <<rows[((k - 1) % nr) + 1], cols[((k - 1) \div nr) + 1]>>]

\* the nested loops of lines 117-122 and 174-177: rows outside, columns inside
BlockPositions(height, width, block_size) ==
    LET rows == RangeStarts(height, block_size)
        cols == RangeStarts(width, block_size)
        nc   == Len(cols)
    IN  [k \in 1..(Len(rows) * nc) |->
            <<rows[((k - 1) \div nc) + 1], cols[((k - 1) % nc) + 1]>>]

\* the index (from 0) of position p in BlockPositions; BlockIndexAgrees
\* checks it against the list
BlockIndex(p, width, block_size) ==
    ((p[1] \div block_size) * (width \div block_size)) + (p[2] \div block_size)

PositionSet(height, width, block_size) ==
    LET bp == BlockPositions(height, width, block_size)
    IN  {bp[k] : k \in DOMAIN bp}

Abs(c) == IF c < 0 THEN -c ELSE c

\* lines 139-146 on the three coefficients [4,4], [4,5], [5,4] of one block
Modulate(coeffs, bit, embed_strength) ==
    IF bit = 1
    THEN [q \in 1..3 |-> Abs(coeffs[q]) + embed_strength]
    ELSE [q \in 1..3 |-> (-Abs(coeffs[q])) - embed_strength]

\* mutant of EmbedWatermark: the bit frame is repeated over the whole plane
EmbedWatermarkWholePlane(self, frame_, watermark_data, strength) ==
    LET embed_strength == IF strength = <<>> THEN self.strength ELSE strength[1]
        watermark      == EncodeMessage(watermark_data)
        watermarked ==
            [p \in DOMAIN frame_.y |->
                LET k == BlockIndex(p, frame_.width, self.block_size)
                IN  Modulate(frame_.y[p], watermark[((k \div 3) % Len(watermark)) + 1],
                             embed_strength)]
    IN  [frame_ EXCEPT !.y = watermarked]

\* lines 101-155; strength is <<>> for None and <<s>> for a value
EmbedWatermark(self, frame_, watermark_data, strength) ==
    LET embed_strength == IF strength = <<>> THEN self.strength ELSE strength[1]
        watermark      == EncodeMessage(watermark_data)
        bits_per_block == 3
        watermarked ==
            [p \in DOMAIN frame_.y |->
                LET k == BlockIndex(p, frame_.width, self.block_size)
                IN  IF (k \div bits_per_block) < Len(watermark)
                    THEN Modulate(frame_.y[p], watermark[(k \div bits_per_block) + 1],
                                  embed_strength)
                    ELSE frame_.y[p]]
    IN  [frame_ EXCEPT !.y = watermarked]

\* mutant of CallerFrame: the plane is modulated in place
CallerFrameInPlace(frame_, returned) == returned

\* the caller's array after the call: cvtColor (line 105) builds a new array
\* and y.copy() (line 115) a new plane, so nothing is written to the input
CallerFrame(frame_, returned) == frame_

\* mutant of EngineAfterEmbed: the per-call strength is stored on the engine
EngineKeepsStrength(self, strength) ==
    IF strength = <<>> THEN self ELSE [self EXCEPT !.strength = strength[1]]

\* the engine after line 102: embed_strength is a local, self is not assigned
EngineAfterEmbed(self, strength) == self

\* line 182
RequiredBlocks(watermark_length) == ((watermark_length * 8) + 3 - 1) \div 3

\* mutant of ReadBit: one positive coefficient is enough
ReadBitAny(coeffs) == Cardinality({q \in 1..3 : coeffs[q] > 0}) > 0

\* lines 198-203: vote = int(dct[4,4] > 0) + int(dct[4,5] > 0) + int(dct[5,4] > 0)
\* and the block's bit is vote > 1
ReadBit(coeffs) == Cardinality({q \in 1..3 : coeffs[q] > 0}) > 1

\* lines 188-203: the votes of the blocks of logical bit idx (from 0)
BlockVotes(y, bp, idx) ==
    LET n == Min(3, Len(bp) - (3 * idx))
    IN  [offset \in 1..n |-> ReadBit(y[bp[(3 * idx) + offset]])]

\* line 207
MajorityBit(block_votes) ==
    IF Cardinality({v \in DOMAIN block_votes : block_votes[v]}) > (Len(block_votes) \div 2)
    THEN 1 ELSE 0

\* lines 184-208: idx runs over range(required_blocks) until the blocks run
\* out (idx * 3 >= len(block_positions)); one voted bit per round
ExtractLoop(y, bp, required_blocks) ==
    LET rounds == Min(required_blocks, (Len(bp) + 2) \div 3)
    IN  [idx1 \in 1..rounds |-> MajorityBit(BlockVotes(y, bp, idx1 - 1))]

\* mutant of ExtractedBits: the voted bits are read under the instance's key
ExtractedBitsKeyed(self, frame_, watermark_length) ==
    LET bits == ExtractLoop(frame_.y,
                            BlockPositions(frame_.height, frame_.width, self.block_size),
                            RequiredBlocks(watermark_length))
    IN  [i \in DOMAIN bits |-> (bits[i] + self.key[((i - 1) % Len(self.key)) + 1]) % 2]

\* lines 168-208: the voted bits, one element per logical bit
ExtractedBits(self, frame_, watermark_length) ==
    ExtractLoop(frame_.y,
                BlockPositions(frame_.height, frame_.width, self.block_size),
                RequiredBlocks(watermark_length))

\* lines 214-216
PadToByte(bits) ==
    [i \in 1..(8 * ((Len(bits) + 7) \div 8)) |-> IF i <= Len(bits) THEN bits[i] ELSE 0]

\* lines 218-225
ExtractedBytes(extracted_bits) == PackedValues(PadToByte(extracted_bits))

\* lines 210-232
DecodeExtracted(extracted_bits) ==
    IF extracted_bits = <<>> THEN None
    ELSE LET decoded == DecodeMessage(ExtractedBytes(extracted_bits))
         IN  IF IsRaised(decoded) THEN None
             ELSE IF decoded.tag = "str" /\ decoded.val # <<>> THEN decoded
             ELSE None

\* mutant of ExtractWatermark: the loop lacks the breaks of lines 185-186
\* and 190-191 and indexes block_positions past its end
ExtractWatermarkNoGuard(self, frame_, watermark_length) ==
    IF (3 * RequiredBlocks(watermark_length))
          > Len(BlockPositions(frame_.height, frame_.width, self.block_size))
    THEN Raised("IndexError")
    ELSE DecodeExtracted(ExtractedBits(self, frame_, watermark_length))

\* lines 157-232
ExtractWatermark(self, frame_, watermark_length) ==
    DecodeExtracted(ExtractedBits(self, frame_, watermark_length))

(***************************************************************************)
(* Inputs: frames, strengths, lengths, bit lists.                          *)
(***************************************************************************)
\* the length the tests and /verify pass to extract_watermark
UpperBoundLength == 1024
\* the length detect_piracy passes to extract_watermark
ApiMaxLength == 128

\* <<height, width>>: smaller than a block, with a residual strip, the
\* capacity of the empty and of a one-byte message, and a large plane
FrameDims == {<<4, 4>>, <<20, 30>>, <<48, 96>>, <<64, 96>>, <<192, 256>>}
CropDims == {<<4, 4>>, <<20, 30>>}

\* bit lists that extract_watermark hands on as 32 byte values which
\* _decode_message reads as the text 'A'
CarrierBytes ==
    <<0,0,0,0,0,0,0,0,  0,0,0,0,0,0,0,1,  0,0,0,0,0,0,0,65,  0,0,0,0,0,0,0,65>>

Patterns == {"flat", "checker", "carrier"}

\* the coefficients [4,4], [4,5], [5,4] of the block at position p
PatternCoeffs(pattern, p, width, block_size) ==
    LET k == BlockIndex(p, width, block_size)
        carrier == BitsOfBytes(CarrierBytes)
    IN  CASE pattern = "flat"    -> <<0, 0, 0>>
          [] pattern = "checker" -> IF k % 2 = 0 THEN <<9, -2, 120>> ELSE <<-9, 2, -4>>
          [] pattern = "carrier" ->
                IF (k \div 3) < Len(carrier) /\ carrier[(k \div 3) + 1] = 1
                THEN <<6, 6, 6>> ELSE <<-6, -6, -6>>

MakeFrame(dims, pattern, block_size) ==
    [height |-> dims[1], width |-> dims[2], channels |-> 3,
     y |-> [p \in PositionSet(dims[1], dims[2], block_size) |->
                PatternCoeffs(pattern, p, dims[2], block_size)]]

\* 16384 four-byte characters: 65536 UTF-8 bytes, one more than the length
\* prefix can hold
LongMessages == {[i \in 1..16384 |-> 128512]}

Frames(block_size) == {MakeFrame(d, pat, block_size) : d \in FrameDims, pat \in Patterns}

NoFrame == [height |-> 0, width |-> 0, channels |-> 0, y |-> <<>>]

\* the per-call strength: <<>> is None
StrengthArgs == {<<>>, <<1>>}

ExtractLengths == (0..MaxMsgLen) \cup {ApiMaxLength, UpperBoundLength}

NumBlocks(frame_, block_size) ==
    Len(BlockPositions(frame_.height, frame_.width, block_size))

\* what is left of a frame cut down to its top-left dims[1] x dims[2] corner
CropFrame(frame_, dims, block_size) ==
    [height |-> dims[1], width |-> dims[2], channels |-> frame_.channels,
     y |-> [p \in PositionSet(dims[1], dims[2], block_size) |-> frame_.y[p]]]

\* hand-built bit frames: a 16-bit prefix, a checksum field (right or
\* wrong), some payload bytes, whole or cut short
BitFrame(prefix, checksum, payload) ==
    BitsOfBytes(LengthBytes(prefix) \o <<checksum>> \o payload)

BuiltInputs ==
    LET whole == {BitFrame(n, c, pl) : n \in (0..MaxPrefix) \cup {256, 65535},
                                       c \in {0, 65, 195},
                                       pl \in SeqsUpTo(RawBytes, MaxPayload)}
    IN  whole \cup {SubSeq(d, 1, Len(d) - 3) : d \in whole}

GarbageInputs == SeqsUpTo({0, 1}, MaxGarbageLen) \cup BuiltInputs

(***************************************************************************)
(* The state machine.  op is the last call made, msg and arg its arguments,*)
(* data the bit list in flight (the output of _encode_message, the input   *)
(* of _decode_message, the voted bits of extract_watermark), ret the       *)
(* value returned, frame the caller's frame and wframe the frame           *)
(* embed_watermark returned.  other is a second instance (NoEngine where   *)
(* none is built) and calls the calls in progress of the callers that      *)
(* share engine (<<>> where the calls come one at a time).                 *)
(***************************************************************************)
NoArg == [strength |-> <<>>, length |-> 0, src |-> "none",
          embedder |-> "none", extractor |-> "none", expected |-> <<>>]
NoTamper == [kind |-> "none", at |-> 0]

InitFramer ==
    /\ engine = WatermarkEngine(8, DefaultStrength, <<0, 1>>)
    /\ other = NoEngine
    /\ calls = <<>>
    /\ frame = MakeFrame(<<4, 4>>, "flat", 8)
    /\ wframe = NoFrame
    /\ op = "init"
    /\ msg = <<>>
    /\ data = <<>>
    /\ tamper = NoTamper
    /\ arg = NoArg
    /\ ret = None
    /\ lsb = <<>>
    /\ conn = <<>>
    /\ limiter = <<>>
    /\ http = <<>>

InitEngine ==
    /\ engine \in {WatermarkEngine(b, DefaultStrength, k) : b \in BlockSizes, k \in Keys}
    /\ other = NoEngine
    /\ calls = <<>>
    /\ frame \in Frames(engine.block_size)
    /\ wframe = NoFrame
    /\ op = "init"
    /\ msg = <<>>
    /\ data = <<>>
    /\ tamper = NoTamper
    /\ arg = NoArg
    /\ ret = None
    /\ lsb = <<>>
    /\ conn = <<>>
    /\ limiter = <<>>
    /\ http = <<>>

\* bits = self._encode_message(m)
Encode(m) ==
    /\ op = "init"
    /\ msg' = m
    /\ LET err == EncodeError(m)
       IN  IF IsRaised(err)
           THEN op' = "raised" /\ ret' = err /\ data' = data
           ELSE op' = "encode" /\ ret' = ret /\ data' = EncodeMessage(m)
    /\ UNCHANGED <<serviceVars, engine, other, calls, frame, wframe, tamper, arg>>

\* payload lengths on both sides of the one-byte boundary
LengthValues == {0, 1, 255, 256, 300, MaxEncodable}

\* lines 29-30 and 40-43 on a payload of n bytes: the bits of the length prefix
LengthPrefix(n) ==
    /\ op = "init"
    /\ op' = "prefix"
    /\ arg' = [arg EXCEPT !.length = n]
    /\ data' = BitsOfBytes(LengthBytes(n))
    /\ UNCHANGED <<serviceVars, engine, other, calls, frame, wframe, msg, tamper, ret>>

\* the channel flips bit i of the bit frame
FlipBit(i) ==
    /\ op = "encode"
    /\ i \in 1..Len(data)
    /\ op' = "tamper"
    /\ data' = [data EXCEPT ![i] = 1 - @]
    /\ tamper' = [kind |-> "flip", at |-> i]
    /\ UNCHANGED <<serviceVars, engine, other, calls, frame, wframe, msg, arg, ret>>

\* the channel delivers only the first k bits
Truncate(k) ==
    /\ op = "encode"
    /\ k \in 0..(Len(data) - 1)
    /\ op' = "tamper"
    /\ data' = SubSeq(data, 1, k)
    /\ tamper' = [kind |-> "cut", at |-> k]
    /\ UNCHANGED <<serviceVars, engine, other, calls, frame, wframe, msg, arg, ret>>

\* tails of one byte and more: extract_watermark votes on whole blocks
\* beyond the bit frame
LongTails == {<<1, 1, 1, 1, 1, 1, 1, 1>>, <<0, 1, 0, 0, 0, 0, 0, 1, 1>>}

\* bits t follow the bit frame
AppendBits(t) ==
    /\ op = "encode"
    /\ t # <<>>
    /\ op' = "tamper"
    /\ data' = data \o t
    /\ tamper' = [kind |-> "append", at |-> Len(t)]
    /\ UNCHANGED <<serviceVars, engine, other, calls, frame, wframe, msg, arg, ret>>

\* a bit list that no _encode_message call produced
Garbage(d) ==
    /\ op = "init"
    /\ op' = "tamper"
    /\ data' = d
    /\ tamper' = [kind |-> "garbage", at |-> 0]
    /\ UNCHANGED <<serviceVars, engine, other, calls, frame, wframe, msg, arg, ret>>

\* ret = self._decode_message(data)
Decode ==
    /\ op \in {"encode", "tamper"}
    /\ op' = "decode"
    /\ ret' = DecodeMessage(data)
    /\ UNCHANGED <<serviceVars, engine, other, calls, frame, wframe, msg, data, tamper, arg>>

\* the instance a call is made on
Instance(who) == IF who = "engine" THEN engine ELSE other

\* wframe = <who>.embed_watermark(frame, m, strength)
EmbedBy(who, m, strength) ==
    /\ op = "init"
    /\ msg' = m
    /\ arg' = [arg EXCEPT !.strength = strength, !.src = "frame", !.embedder = who]
    /\ LET err == EncodeError(m)
       IN  IF IsRaised(err)
           THEN \* line 111: the exception of _encode_message leaves embed_watermark
                op' = "raised" /\ ret' = err /\ wframe' = wframe /\ frame' = frame
           ELSE /\ op' = "embed"
                /\ wframe' = EmbedWatermark(Instance(who), frame, m, strength)
                /\ frame' = CallerFrame(frame, wframe')
                /\ ret' = [tag |-> "frame", val |-> <<>>]
    /\ UNCHANGED <<serviceVars, engine, other, calls, data, tamper>>

\* wframe = engine.embed_watermark(frame, m, strength)
Embed(m, strength) == EmbedBy("engine", m, strength)

\* wframe = other.embed_watermark(frame, m, strength)
OtherEmbed(m, strength) == EmbedBy("other", m, strength)

\* the caller cuts the watermarked frame down before extraction
Crop(dims) ==
    /\ op = "embed"
    /\ dims[1] <= wframe.height /\ dims[2] <= wframe.width
    /\ <<wframe.height, wframe.width>> # dims
    /\ op' = "crop"
    /\ wframe' = CropFrame(wframe, dims, engine.block_size)
    /\ UNCHANGED <<serviceVars, engine, other, calls, frame, msg, data, tamper, arg, ret>>

\* ret = <who>.extract_watermark(f, watermark_length), f the caller's
\* frame before any embed and the watermarked frame after it
ExtractBy(who, watermark_length) ==
    /\ op \in {"init", "embed", "crop"}
    /\ LET f == IF op = "init" THEN frame ELSE wframe
       IN  /\ data' = ExtractedBits(Instance(who), f, watermark_length)
           /\ ret' = ExtractWatermark(Instance(who), f, watermark_length)
    /\ op' = "extract"
    /\ arg' = [arg EXCEPT !.length = watermark_length,
                          !.src = IF op = "init" THEN "frame"
                                  ELSE IF op = "embed" THEN "embedded" ELSE "cropped",
                          !.extractor = who]
    /\ UNCHANGED <<serviceVars, engine, other, calls, frame, wframe, msg, tamper>>

\* ret = engine.extract_watermark(f, watermark_length)
Extract(watermark_length) == ExtractBy("engine", watermark_length)

\* ret = other.extract_watermark(f, watermark_length)
OtherExtract(watermark_length) == ExtractBy("other", watermark_length)

NextFramer ==
    \/ \E m \in Messages \cup LongMessages : Encode(m)
    \/ \E n \in LengthValues : LengthPrefix(n)
    \/ \E i \in 1..Len(data) : FlipBit(i)
    \/ \E k \in 0..Len(data) : Truncate(k)
    \/ \E t \in SeqsUpTo({0, 1}, MaxGarbageLen) \cup LongTails : AppendBits(t)
    \/ \E d \in GarbageInputs : Garbage(d)
    \/ Decode

NextEngine ==
    \/ \E m \in EmbedMessages \cup LongMessages, s \in StrengthArgs : Embed(m, s)
    \/ \E d \in CropDims : Crop(d)
    \/ \E n \in ExtractLengths : Extract(n)

\* the bit framer alone
Spec == InitFramer /\ [][NextFramer]_vars

\* the engine: embed, then extract
SpecEngine == InitEngine /\ [][NextEngine]_vars

\* the strength parameter of __init__: the default and another value
Strengths == {DefaultStrength, 40}

TwoEngineFrames(block_size) ==
    {MakeFrame(<<48, 96>>, pat, block_size) : pat \in {"checker", "carrier"}}

\* two instances built with the same block size; each draws its own key
InitTwoEngines ==
    /\ engine \in {WatermarkEngine(b, DefaultStrength, k) : b \in BlockSizes, k \in Keys}
    /\ other \in {WatermarkEngine(engine.block_size, s, k) : s \in Strengths, k \in Keys}
    /\ calls = <<>>
    /\ frame \in TwoEngineFrames(engine.block_size)
    /\ wframe = NoFrame
    /\ op = "init"
    /\ msg = <<>>
    /\ data = <<>>
    /\ tamper = NoTamper
    /\ arg = NoArg
    /\ ret = None
    /\ lsb = <<>>
    /\ conn = <<>>
    /\ limiter = <<>>
    /\ http = <<>>

NextTwoEngines ==
    \/ \E m \in EmbedMessages, s \in StrengthArgs : Embed(m, s)
    \/ \E m \in EmbedMessages, s \in StrengthArgs : OtherEmbed(m, s)
    \/ \E n \in ExtractLengths : Extract(n)
    \/ \E n \in ExtractLengths : OtherExtract(n)

\* two engines: either embeds, either extracts
SpecTwoEngines == InitTwoEngines /\ [][NextTwoEngines]_vars

(***************************************************************************)
(* Several callers on one engine (the module-level watermark_engine of     *)
(* api.py).  calls[c] holds caller c's position in its call and the        *)
(* call's locals; a call is cut at each read of a field of self.           *)
(***************************************************************************)
Callers == 1..NumCallers

Idle ==
    [pc |-> "idle", kind |-> "none", frame |-> NoFrame, msg |-> <<>>,
     strength |-> <<>>, length |-> 0, embed_strength |-> 0,
     out |-> NoFrame, ret |-> None]

ConcurrentFrames(block_size) ==
    {MakeFrame(<<20, 30>>, pat, block_size) : pat \in {"flat", "checker"}}

ConcurrentMessages == {<<65>>}

ConcurrentLengths == {1, ApiMaxLength}

InitConcurrent ==
    /\ engine \in {WatermarkEngine(b, DefaultStrength, k) : b \in BlockSizes, k \in Keys}
    /\ other = NoEngine
    /\ calls = [c \in Callers |-> Idle]
    /\ frame = NoFrame
    /\ wframe = NoFrame
    /\ op = "init"
    /\ msg = <<>>
    /\ data = <<>>
    /\ tamper = NoTamper
    /\ arg = NoArg
    /\ ret = None
    /\ lsb = <<>>
    /\ conn = <<>>
    /\ limiter = <<>>
    /\ http = <<>>

\* caller c enters embed_watermark(f, m, strength)
CallEmbed(c, f, m, strength) ==
    /\ calls[c].pc = "idle"
    /\ calls' = [calls EXCEPT ![c] = [Idle EXCEPT !.pc = "embed_102", !.kind = "embed",
                                                  !.frame = f, !.msg = m,
                                                  !.strength = strength]]
    /\ UNCHANGED <<serviceVars, engine, other, frame, wframe, op, msg, data, tamper, arg, ret>>

\* line 102: embed_strength = strength if strength is not None else self.strength
EmbedReadStrength(c) ==
    /\ calls[c].pc = "embed_102"
    /\ calls' = [calls EXCEPT ![c].pc = "embed_105",
                              ![c].embed_strength =
                                  IF calls[c].strength = <<>> THEN engine.strength
                                  ELSE calls[c].strength[1]]
    /\ engine' = EngineAfterEmbed(engine, calls[c].strength)
    /\ UNCHANGED <<serviceVars, other, frame, wframe, op, msg, data, tamper, arg, ret>>

\* lines 105-155 with the local embed_strength; the block loops read
\* self.block_size
EmbedFinish(c) ==
    /\ calls[c].pc = "embed_105"
    /\ LET returned == EmbedWatermark(engine, calls[c].frame, calls[c].msg,
                                      <<calls[c].embed_strength>>)
       IN  calls' = [calls EXCEPT ![c].pc = "done",
                                 ![c].out = returned,
                                 ![c].frame = CallerFrame(calls[c].frame, returned),
                                 ![c].ret = [tag |-> "frame", val |-> <<>>]]
    /\ UNCHANGED <<serviceVars, engine, other, frame, wframe, op, msg, data, tamper, arg, ret>>

\* caller c enters extract_watermark(f, watermark_length)
CallExtract(c, f, watermark_length) ==
    /\ calls[c].pc = "idle"
    /\ calls' = [calls EXCEPT ![c] = [Idle EXCEPT !.pc = "extract_168", !.kind = "extract",
                                                  !.frame = f,
                                                  !.length = watermark_length]]
    /\ UNCHANGED <<serviceVars, engine, other, frame, wframe, op, msg, data, tamper, arg, ret>>

\* lines 168-232; the block loops read self.block_size
ExtractFinish(c) ==
    /\ calls[c].pc = "extract_168"
    /\ calls' = [calls EXCEPT ![c].pc = "done",
                              ![c].ret = ExtractWatermark(engine, calls[c].frame,
                                                          calls[c].length)]
    /\ UNCHANGED <<serviceVars, engine, other, frame, wframe, op, msg, data, tamper, arg, ret>>

\* caller c takes its result and is free for its next call
Return(c) ==
    /\ calls[c].pc = "done"
    /\ calls' = [calls EXCEPT ![c] = Idle]
    /\ UNCHANGED <<serviceVars, engine, other, frame, wframe, op, msg, data, tamper, arg, ret>>

NextConcurrent ==
    \E c \in Callers :
        \/ \E f \in ConcurrentFrames(engine.block_size), m \in ConcurrentMessages,
              s \in StrengthArgs : CallEmbed(c, f, m, s)
        \/ EmbedReadStrength(c)
        \/ EmbedFinish(c)
        \/ \E f \in ConcurrentFrames(engine.block_size), n \in ConcurrentLengths :
              CallExtract(c, f, n)
        \/ ExtractFinish(c)
        \/ Return(c)

\* callers interleave their calls on one engine
SpecConcurrent == InitConcurrent /\ [][NextConcurrent]_vars

(***************************************************************************)
(* Noise on the watermarked plane: between embed and extract the sign of   *)
(* one modulated coefficient of one block is flipped.                      *)
(***************************************************************************)
NoiseFrames(block_size) ==
    {MakeFrame(d, pat, block_size) : d \in {<<20, 30>>, <<48, 96>>},
                                     pat \in {"flat", "checker"}}

\* per-call strengths, 0 among them
NoiseStrengthArgs == StrengthArgs \cup {<<0>>}

InitNoise ==
    /\ engine \in {WatermarkEngine(b, DefaultStrength, <<0, 1>>) : b \in BlockSizes}
    /\ other = NoEngine
    /\ calls = <<>>
    /\ frame \in NoiseFrames(engine.block_size)
    /\ wframe = NoFrame
    /\ op = "init"
    /\ msg = <<>>
    /\ data = <<>>
    /\ tamper = NoTamper
    /\ arg = NoArg
    /\ ret = None
    /\ lsb = <<>>
    /\ conn = <<>>
    /\ limiter = <<>>
    /\ http = <<>>

\* coefficient q (1: [4,4], 2: [4,5], 3: [5,4]) of the block at p changes sign
FlipSign(p, q) ==
    /\ op = "embed"
    /\ p \in DOMAIN wframe.y
    /\ op' = "noise"
    /\ wframe' = [wframe EXCEPT !.y[p][q] = -@]
    /\ tamper' = [kind |-> "sign",
                  at |-> (3 * BlockIndex(p, wframe.width, engine.block_size)) + q]
    /\ UNCHANGED <<serviceVars, engine, other, calls, frame, msg, data, arg, ret>>

NextNoise ==
    \/ \E m \in EmbedMessages, s \in NoiseStrengthArgs : Embed(m, s)
    \/ \E p \in DOMAIN wframe.y, q \in 1..3 : FlipSign(p, q)

\* embed, then one sign flip
SpecNoise == InitNoise /\ [][NextNoise]_vars

(***************************************************************************)
(* The callers of extract_watermark: the /api/v1/content/verify endpoint   *)
(* and WatermarkValidator.validate_watermark.                              *)
(***************************************************************************)
\* s occurs in t as a contiguous run (Python's `s in t` on str)
Contains(t, s) ==
    \E i \in 0..(Len(t) - Len(s)) : SubSeq(t, i + 1, i + Len(s)) = s

\* default of the constructor's block_size parameter
DefaultBlockSize == 8

\* an HTTP answer: the status and the "verified" entry of the body
Response(status, verified) ==
    [tag |-> "response", val |-> [status |-> status, verified |-> verified]]

\* api.py lines 434-473 from the value extract_watermark returned: the
\* answers the endpoint can give.  None has no startswith (AttributeError),
\* which the except of line 469 turns into a 500; after a text that starts
\* with '{' the answer comes from json.loads and the registry
VerifyResponses(extracted_data) ==
    IF extracted_data.tag # "str" THEN {Response(500, FALSE)}
    ELSE IF extracted_data.val = <<>> \/ extracted_data.val[1] # 123
         THEN {Response(200, FALSE)}
         ELSE {Response(200, FALSE), Response(200, TRUE), Response(500, FALSE)}

\* watermarking.py lines 280-282: expected_text in extracted; `in` on None
\* raises TypeError and nothing catches it
ValidateWatermark(frame_, expected_text) ==
    LET engine_   == WatermarkEngine(DefaultBlockSize, DefaultStrength, <<0, 1>>)
        extracted == ExtractWatermark(engine_, frame_, Len(expected_text) * 8)
    IN  IF extracted.tag # "str" THEN Raised("TypeError")
        ELSE [tag |-> "bool", val |-> Contains(extracted.val, expected_text)]

ConsumerFrames ==
    {MakeFrame(d, pat, DefaultBlockSize) : d \in {<<4, 4>>, <<48, 96>>, <<64, 96>>},
                                          pat \in Patterns}

InitConsumers ==
    /\ engine = WatermarkEngine(DefaultBlockSize, DefaultStrength, <<0, 1>>)
    /\ other = NoEngine
    /\ calls = <<>>
    /\ frame \in ConsumerFrames
    /\ wframe = NoFrame
    /\ op = "init"
    /\ msg = <<>>
    /\ data = <<>>
    /\ tamper = NoTamper
    /\ arg = NoArg
    /\ ret = None
    /\ lsb = <<>>
    /\ conn = <<>>
    /\ limiter = <<>>
    /\ http = <<>>

\* POST /api/v1/content/verify with the caller's frame (before any embed)
\* or the watermarked frame as the uploaded image
VerifyContent ==
    /\ op \in {"init", "embed"}
    /\ LET f == IF op = "init" THEN frame ELSE wframe
       IN  ret' \in VerifyResponses(ExtractWatermark(engine, f, UpperBoundLength))
    /\ op' = "verify"
    /\ arg' = [arg EXCEPT !.length = UpperBoundLength,
                          !.src = IF op = "init" THEN "frame" ELSE "embedded"]
    /\ UNCHANGED <<serviceVars, engine, other, calls, frame, wframe, msg, data, tamper>>

\* WatermarkValidator().validate_watermark(f, expected_text)
Validate(expected_text) ==
    /\ op \in {"init", "embed"}
    /\ LET f == IF op = "init" THEN frame ELSE wframe
       IN  ret' = ValidateWatermark(f, expected_text)
    /\ op' = "validate"
    /\ arg' = [arg EXCEPT !.length = Len(expected_text) * 8,
                          !.src = IF op = "init" THEN "frame" ELSE "embedded",
                          !.expected = expected_text]
    /\ UNCHANGED <<serviceVars, engine, other, calls, frame, wframe, msg, data, tamper>>

NextConsumers ==
    \/ \E m \in EmbedMessages, s \in StrengthArgs : Embed(m, s)
    \/ VerifyContent
    \/ \E t \in EmbedMessages : Validate(t)

\* embed, then the endpoint or the validator reads the frame
SpecConsumers == InitConsumers /\ [][NextConsumers]_vars

(***************************************************************************)
(* DigitalWatermarker (watermarking/watermarker.py): the LSB watermark of  *)
(* the /register/ and /verify/ endpoints of index.py.  An image is its     *)
(* list of RGB pixels (image.getdata()); PNG storage is lossless and taken *)
(* as exact.  lsb holds the last call, its arguments and its results.      *)
(***************************************************************************)
\* self.watermark_size
WatermarkSize == 32

\* 'SecureStream_'
IdPrefix ==
    <<83, 101, 99, 117, 114, 101, 83, 116, 114, 101, 97, 109, 95>>

\* str.ljust(width, '0')
LJust0(t, width) == t \o [i \in 1..(IF Len(t) < width THEN width - Len(t) ELSE 0) |-> 48]

\* line 15: f"SecureStream_{content_id}"[:self.watermark_size].ljust(self.watermark_size, '0')
GenerateWatermark(content_id) ==
    LET t == IdPrefix \o content_id
    IN  LJust0(SubSeq(t, 1, Min(WatermarkSize, Len(t))), WatermarkSize)

\* watermark_length.to_bytes(4, byteorder='big')
LengthBytes4(n) ==
    <<n \div 16777216, (n \div 65536) % 256, (n \div 256) % 256, n % 256>>

\* mutant of SetLsb: the two low bits are cleared
SetLsbClearTwo(r, bit) == (r - (r % 4)) + bit

\* (r & 0xFE) | bit
SetLsb(r, bit) == (r - (r % 2)) + bit

\* embed_watermark lines 30-81: pixels[pixel_index] past the end of the list
\* raises IndexError, which line 79 re-raises
LsbEmbed(pixels, watermark) ==
    LET watermark_bytes == Utf8Encode(watermark)
        bits == BitsOfBytes(LengthBytes4(Len(watermark_bytes)) \o watermark_bytes)
    IN  IF Len(bits) > Len(pixels) THEN Raised("IndexError")
        ELSE [tag |-> "image",
              val |-> [i \in 1..Len(pixels) |->
                          IF i <= Len(bits)
                          THEN <<SetLsb(pixels[i][1], bits[i]), pixels[i][2], pixels[i][3]>>
                          ELSE pixels[i]]]

\* the sanity bound of line 118
MaxLsbLength == 1000

\* extract_watermark lines 98-147: every exception and every failed check
\* gives the empty string
LsbExtract(pixels) ==
    IF Len(pixels) < 32 THEN Str(<<>>)
    ELSE LET length_bits == [i \in 1..32 |-> pixels[i][1] % 2]
             \* int.from_bytes(length_bytes, 'big'); a value with a non-zero
             \* high half is above the bound of line 118 and stands as 65536
             length == IF PackFrom(length_bits, 0, 0, 0) > 0
                          \/ PackFrom(length_bits, 8, 0, 0) > 0
                       THEN 65536
                       ELSE (PackFrom(length_bits, 16, 0, 0) * 256)
                            + PackFrom(length_bits, 24, 0, 0)
         IN  IF length <= 0 \/ length > MaxLsbLength THEN Str(<<>>)
             ELSE IF Len(pixels) < 32 + (8 * length) THEN Str(<<>>)
             ELSE LET watermark_bits == [i \in 1..(8 * length) |-> pixels[32 + i][1] % 2]
                      watermark_bytes ==
                          [k \in 1..length |-> PackFrom(watermark_bits, 8 * (k - 1), 0, 0)]
                      decoded == Utf8Decode(watermark_bytes)
                  IN  IF decoded.ok THEN Str(decoded.cps) ELSE Str(<<>>)

\* str.replace(old, ''): every occurrence of old is removed, left to right
RECURSIVE RemoveAll(_, _)
RemoveAll(t, old) ==
    IF Len(t) < Len(old) \/ old = <<>> THEN t
    ELSE IF SubSeq(t, 1, Len(old)) = old
         THEN RemoveAll(SubSeq(t, Len(old) + 1, Len(t)), old)
         ELSE <<t[1]>> \o RemoveAll(Tail(t), old)

\* str.rstrip('0')
RStrip0(t) ==
    LET keep == {i \in DOMAIN t : t[i] # 48}
    IN  IF keep = {} THEN <<>>
        ELSE SubSeq(t, 1, CHOOSE i \in keep : \A j \in keep : j <= i)

\* index.py line 257: watermark.replace("SecureStream_", "").rstrip('0')
ContentIdOf(watermark) == RStrip0(RemoveAll(watermark, IdPrefix))

\* str(uuid.uuid4()): 36 characters
ContentIds ==
    {
     <<51, 102, 50, 98, 56, 99, 49, 101, 45, 55, 97, 52, 100, 45, 52, 101,
      57, 98, 45, 97, 49, 99, 48, 45, 53, 100, 54, 101, 55, 102, 56, 48, 57,
      97, 49, 48>>,
     <<48, 48, 48, 48, 48, 48, 48, 48, 45, 48, 48, 48, 48, 45, 52, 48, 48,
      48, 45, 56, 48, 48, 48, 45, 48, 48, 48, 48, 48, 48, 48, 48, 48, 48,
      48, 48>>
    }

\* pixel lists: too short for the length field, the exact size of a
\* one-byte watermark, a few sizes above it, and room for 32 bytes
LsbSizes == {16, 40, 48, 64, 96, 300}

LsbImages ==
    {[i \in 1..n |-> <<(37 * i) % 256, 200, 13>>] : n \in LsbSizes}
    \cup {[i \in 1..n |-> <<255, 0, 128>>] : n \in LsbSizes}

NoImage == [tag |-> "None", val |-> <<>>]

InitLsb ==
    /\ lsb \in {[op |-> "init", image |-> im, out |-> NoImage, watermark |-> <<>>,
                 content_id |-> <<>>, ret |-> None, queried |-> None, via |-> "none"]
                : im \in LsbImages}
    /\ conn = <<>>
    /\ limiter = <<>>
    /\ http = <<>>
    /\ engine = NoEngine
    /\ other = NoEngine
    /\ calls = <<>>
    /\ frame = NoFrame
    /\ wframe = NoFrame
    /\ op = "init"
    /\ msg = <<>>
    /\ data = <<>>
    /\ tamper = NoTamper
    /\ arg = NoArg
    /\ ret = None

\* out = DigitalWatermarker().embed_watermark(image, w)
LsbEmbedCall(w) ==
    /\ lsb.op = "init"
    /\ lsb' = [lsb EXCEPT !.op = "embed", !.watermark = w, !.via = "embed",
                          !.out = LsbEmbed(lsb.image, w)]
    /\ UNCHANGED <<engineVars, conn, limiter, http>>

\* POST /register/ (index.py lines 139-157): the content id c is drawn, the
\* watermark generated and embedded, the watermarked image stored
RegisterContent(c) ==
    /\ lsb.op = "init"
    /\ lsb' = [lsb EXCEPT !.op = "register", !.content_id = c, !.via = "register",
                          !.watermark = GenerateWatermark(c),
                          !.out = LsbEmbed(lsb.image, GenerateWatermark(c))]
    /\ UNCHANGED <<engineVars, conn, limiter, http>>

\* ret = DigitalWatermarker().extract_watermark(x), x the image before any
\* embed or the image the last call produced
LsbExtractCall ==
    /\ \/ lsb.op = "init"
       \/ lsb.op \in {"embed", "register"} /\ lsb.out.tag = "image"
    /\ lsb' = [lsb EXCEPT !.op = "extract",
                          !.ret = LsbExtract(IF lsb.op = "init" THEN lsb.image
                                             ELSE lsb.out.val)]
    /\ UNCHANGED <<engineVars, conn, limiter, http>>

\* POST /verify/ (index.py lines 244-257) with the image /register/ stored:
\* queried is the content id the registry and the fingerprint store are
\* asked for, None when the answer is "unverified"
VerifyRegistered ==
    /\ lsb.op = "register" /\ lsb.out.tag = "image"
    /\ LET watermark == LsbExtract(lsb.out.val)
       IN  lsb' = [lsb EXCEPT !.op = "verify", !.ret = watermark,
                              !.queried = IF watermark.val = <<>> THEN None
                                          ELSE Str(ContentIdOf(watermark.val))]
    /\ UNCHANGED <<engineVars, conn, limiter, http>>

NextLsb ==
    \/ \E w \in Messages : LsbEmbedCall(w)
    \/ \E c \in ContentIds : RegisterContent(c)
    \/ LsbExtractCall
    \/ VerifyRegistered

\* the LSB watermarker and the two endpoints that use it
SpecLsb == InitLsb /\ [][NextLsb]_vars

(***************************************************************************)
(* The websocket fan-out (realtime.py).  conn holds the manager's          *)
(* active_connections, the state of every handle_websocket coroutine and   *)
(* the broadcast in progress.  A coroutine runs without interruption       *)
(* between two awaits, so one step of the model runs from one suspension   *)
(* point to the next.                                                      *)
(***************************************************************************)

WebSockets == 1..NumSockets

Clients == {"a", "b"}

\* the client id a websocket connects under: handle_websocket(websocket, client_id)
ClientOf(ws) == IF ws % 2 = 1 THEN "a" ELSE "b"

\* self.active_connections = {}
NoConnections == [c \in {} |-> {}]

\* the body of connect after the accept: the client's set is created when
\* missing and the websocket added to it
ConnectResult(active, ws, c) ==
    IF c \in DOMAIN active
    THEN [active EXCEPT ![c] = @ \cup {ws}]
    ELSE [k \in DOMAIN active \cup {c} |-> IF k = c THEN {ws} ELSE active[k]]

\* mutant of DisconnectResult: the emptied set stays in the dictionary
DisconnectKeepsEmpty(active, ws, c) ==
    IF c \in DOMAIN active /\ ws \in active[c]
    THEN [active EXCEPT ![c] = @ \ {ws}]
    ELSE active

\* disconnect: the websocket leaves the client's set and an emptied set
\* leaves the dictionary; set.remove of a websocket that is not in the set
\* raises KeyError before anything changes
DisconnectResult(active, ws, c) ==
    IF c \in DOMAIN active /\ ws \in active[c]
    THEN IF active[c] \ {ws} = {}
         THEN [k \in DOMAIN active \ {c} |-> active[k]]
         ELSE [active EXCEPT ![c] = @ \ {ws}]
    ELSE active

\* the client named by broadcast(event, client_id); None sends to all
NoClient == "None"

\* no broadcast is running
NoBroadcast ==
    [pc |-> "idle", target |-> NoClient, keys |-> {}, done |-> {}, cur |-> NoClient,
     snap |-> {}, visited |-> {}, detached |-> FALSE, pending |-> 0,
     stayed |-> {}, attempted |-> {}, failed |-> {}]

\* the broadcast ends with RuntimeError: a set or a dictionary changed size
\* during iteration
BroadcastRaised(b) == [b EXCEPT !.pc = "raised", !.pending = 0]

BroadcastDone(b) == [b EXCEPT !.pc = "done", !.pending = 0]

\* next() of the iterator over one client's set, followed by the send it
\* leads to.  The iterator compares the size of its set with the size at its
\* creation before anything else; a set deleted from the dictionary was
\* emptied first.  A set of the same size and other members may yield or
\* skip any of them.
InnerNext(b, active) ==
    IF b.detached \/ Cardinality(active[b.cur]) # Cardinality(b.snap)
    THEN {[tag |-> "raise"]}
    ELSE {[tag |-> "send", ws |-> ws] : ws \in active[b.cur] \ b.visited}
         \cup (IF active[b.cur] \ b.visited = {} \/ active[b.cur] # b.snap
               THEN {[tag |-> "exhausted"]} ELSE {})

\* next() of the iterator over active_connections.values(), followed by the
\* first next() of the iterator over the set it yields; an empty set is
\* passed over
RECURSIVE OuterNext(_, _)
OuterNext(b, active) ==
    IF Cardinality(DOMAIN active) # Cardinality(b.keys)
    THEN {BroadcastRaised(b)}
    ELSE UNION {LET b1 == [b EXCEPT !.done = @ \cup {c}, !.cur = c, !.snap = active[c],
                                    !.visited = {}, !.detached = FALSE]
                IN  IF active[c] = {}
                    THEN OuterNext(b1, active)
                    ELSE {[b1 EXCEPT !.pc = "sending", !.pending = ws,
                                     !.visited = {ws}] : ws \in active[c]}
                : c \in DOMAIN active \ b.done}
         \cup (IF DOMAIN active \ b.done = {} \/ DOMAIN active # b.keys
               THEN {BroadcastDone(b)} ELSE {})

\* the broadcast runs on from the resumption after a send to its next
\* suspension, its return or its exception
Advance(b, active) ==
    UNION {IF r.tag = "raise" THEN {BroadcastRaised(b)}
           ELSE IF r.tag = "send"
                THEN {[b EXCEPT !.pc = "sending", !.pending = r.ws,
                                !.visited = @ \cup {r.ws}]}
           ELSE IF b.target # NoClient THEN {BroadcastDone(b)}
           ELSE OuterNext(b, active)
           : r \in InnerNext(b, active)}

\* the broadcast from its call to its first suspension
BroadcastBegin(target, active) ==
    LET registered == UNION {active[c] : c \in DOMAIN active}
        b0 == [NoBroadcast EXCEPT !.target = target, !.keys = DOMAIN active]
    IN  IF target # NoClient
        THEN IF target \in DOMAIN active
             THEN Advance([b0 EXCEPT !.cur = target, !.snap = active[target],
                                     !.stayed = active[target]], active)
             ELSE {BroadcastDone(b0)}
        ELSE OuterNext([b0 EXCEPT !.stayed = registered], active)

InitConnections ==
    /\ conn = [active |-> NoConnections, hs |-> [ws \in WebSockets |-> "new"],
               bc |-> NoBroadcast]
    /\ lsb = <<>>
    /\ limiter = <<>>
    /\ http = <<>>
    /\ engine = NoEngine
    /\ other = NoEngine
    /\ calls = <<>>
    /\ frame = NoFrame
    /\ wframe = NoFrame
    /\ op = "init"
    /\ msg = <<>>
    /\ data = <<>>
    /\ tamper = NoTamper
    /\ arg = NoArg
    /\ ret = None

\* handle_websocket starts: connect accepts the websocket and registers it
Connect(ws) ==
    /\ conn.hs[ws] = "new"
    /\ conn' = [conn EXCEPT !.hs[ws] = "open",
                            !.active = ConnectResult(conn.active, ws, ClientOf(ws))]
    /\ UNCHANGED <<engineVars, lsb, limiter, http>>

\* websocket.accept() raises: connect ends before the registration and
\* handle_websocket with it
AcceptFails(ws) ==
    /\ conn.hs[ws] = "new"
    /\ conn' = [conn EXCEPT !.hs[ws] = "refused"]
    /\ UNCHANGED <<engineVars, lsb, limiter, http>>

\* the loop of handle_websocket ends: receive_text raises WebSocketDisconnect
\* ("disconnected") or another exception ("errored"), and either handler calls
\* disconnect.  A broadcast suspended in the iteration of this client's set
\* keeps the set object, which the deletion detaches from the dictionary.
LoopEnds(ws, how) ==
    /\ conn.hs[ws] = "open"
    /\ LET c == ClientOf(ws)
           after == DisconnectResult(conn.active, ws, c)
       IN  conn' = [conn EXCEPT
               !.hs[ws] = how,
               !.active = after,
               !.bc.stayed = @ \ {ws},
               !.bc.detached = @ \/ (conn.bc.pc = "sending" /\ conn.bc.cur = c
                                     /\ c \notin DOMAIN after)]
    /\ UNCHANGED <<engineVars, lsb, limiter, http>>

\* broadcast(event, client_id) is called and runs to its first send
BroadcastStart(target) ==
    /\ conn.bc.pc = "idle"
    /\ \E b \in BroadcastBegin(target, conn.active) : conn' = [conn EXCEPT !.bc = b]
    /\ UNCHANGED <<engineVars, lsb, limiter, http>>

\* the pending send_text returns (ok) or raises an exception, which is caught
\* and logged; the loop goes on to the next send
SendReturns(ok) ==
    /\ conn.bc.pc = "sending"
    /\ LET b == [conn.bc EXCEPT !.attempted = @ \cup {conn.bc.pending},
                                !.failed = IF ok THEN @ ELSE @ \cup {conn.bc.pending}]
       IN  \E b2 \in Advance(b, conn.active) : conn' = [conn EXCEPT !.bc = b2]
    /\ UNCHANGED <<engineVars, lsb, limiter, http>>

\* the broadcast has returned or raised; the next one may start
BroadcastEnds ==
    /\ conn.bc.pc \in {"done", "raised"}
    /\ conn' = [conn EXCEPT !.bc = NoBroadcast]
    /\ UNCHANGED <<engineVars, lsb, limiter, http>>

NextConnections ==
    \/ \E ws \in WebSockets : Connect(ws)
    \/ \E ws \in WebSockets : AcceptFails(ws)
    \/ \E ws \in WebSockets, how \in {"disconnected", "errored"} : LoopEnds(ws, how)
    \/ \E target \in Clients \cup {NoClient} : BroadcastStart(target)
    \/ \E ok \in BOOLEAN : SendReturns(ok)
    \/ BroadcastEnds

\* websocket handlers and broadcasts interleaved on one event loop
SpecConnections == InitConnections /\ [][NextConnections]_vars

(***************************************************************************)
(* The rate limiter (api.py).  Time is counted in ticks, TicksPerMinute of *)
(* them to the minute; limiter.now is datetime.utcnow() and limiter.log    *)
(* the calls made so far with what they returned.                          *)
(***************************************************************************)

\* the values of requests_per_minute
Limits == {1, 2}

\* the request.client.host values of the middleware
Hosts == {"h1", "h2"}

\* self.requests = {}
NoRequests == [k \in {} |-> <<>>]

\* mutant of CheckRateLimit: the call is recorded before the count is compared
CheckRateLimitCountsRejected(requests, requests_per_minute, client_id, now) ==
    LET minute_ago == now - TicksPerMinute
        kept == {k \in DOMAIN requests : requests[k][Len(requests[k])] > minute_ago}
        old == IF client_id \in kept THEN requests[client_id] ELSE <<>>
        client_requests == Append(SelectSeq(old, LAMBDA t : t > minute_ago), now)
    IN  [tag |-> "bool", val |-> Len(client_requests) <= requests_per_minute,
         requests |-> [k \in kept \cup {client_id} |->
                          IF k = client_id THEN client_requests ELSE requests[k]]]

\* check_rate_limit: the clients whose last request is a minute old or older
\* are dropped; the client's requests of the last minute are counted; at
\* requests_per_minute of them the call returns False and stores nothing but
\* the client's list as it was (an empty one for a client first seen);
\* otherwise now is appended to the filtered list, which is stored.  v[-1]
\* of an empty list raises IndexError.
CheckRateLimit(requests, requests_per_minute, client_id, now) ==
    IF \E k \in DOMAIN requests : requests[k] = <<>>
    THEN [tag |-> "IndexError", val |-> FALSE, requests |-> requests]
    ELSE
    LET minute_ago == now - TicksPerMinute
        kept == {k \in DOMAIN requests : requests[k][Len(requests[k])] > minute_ago}
        old == IF client_id \in kept THEN requests[client_id] ELSE <<>>
        client_requests == SelectSeq(old, LAMBDA t : t > minute_ago)
    IN  IF Len(client_requests) >= requests_per_minute
        THEN [tag |-> "bool", val |-> FALSE,
              requests |-> [k \in kept \cup {client_id} |->
                               IF k = client_id THEN old ELSE requests[k]]]
        ELSE [tag |-> "bool", val |-> TRUE,
              requests |-> [k \in kept \cup {client_id} |->
                               IF k = client_id THEN Append(client_requests, now)
                               ELSE requests[k]]]

InitLimiter ==
    /\ limiter \in {[requests_per_minute |-> n, requests |-> NoRequests, now |-> 0,
                     log |-> <<>>] : n \in Limits}
    /\ lsb = <<>>
    /\ conn = <<>>
    /\ http = <<>>
    /\ engine = NoEngine
    /\ other = NoEngine
    /\ calls = <<>>
    /\ frame = NoFrame
    /\ wframe = NoFrame
    /\ op = "init"
    /\ msg = <<>>
    /\ data = <<>>
    /\ tamper = NoTamper
    /\ arg = NoArg
    /\ ret = None

\* time passes between two requests
Tick ==
    /\ limiter.now < MaxTime
    /\ limiter' = [limiter EXCEPT !.now = @ + 1]
    /\ UNCHANGED <<engineVars, lsb, conn, http>>

\* the middleware serves a request of client_id: it calls check_rate_limit
\* and answers 429 when that returns False
RateLimitMiddleware(client_id) ==
    /\ Len(limiter.log) < MaxCalls
    /\ LET r == CheckRateLimit(limiter.requests, limiter.requests_per_minute,
                               client_id, limiter.now)
       IN  limiter' = [limiter EXCEPT
               !.requests = r.requests,
               !.log = Append(@, [client_id |-> client_id, now |-> limiter.now,
                                  tag |-> r.tag, val |-> r.val])]
    /\ UNCHANGED <<engineVars, lsb, conn, http>>

NextLimiter ==
    \/ Tick
    \/ \E client_id \in Hosts : RateLimitMiddleware(client_id)

\* requests of several clients at non-decreasing times
SpecLimiter == InitLimiter /\ [][NextLimiter]_vars

(***************************************************************************)
(* The /api/v1 endpoints (api.py): what the body of an endpoint raises and *)
(* the status the client receives.  http.log holds the requests served.    *)
(***************************************************************************)

\* the body returned
Returned == [tag |-> "return", status |-> 200]

\* raise HTTPException(status_code = status, ...)
HTTPException(status) == [tag |-> "HTTPException", status |-> status]

\* an exception that is no HTTPException: JSONDecodeError, KeyError, cv2.error
OtherException == [tag |-> "Exception", status |-> 0]

\* the try block of register_content_batch: the registrations are parsed,
\* the two counts compared, every file processed
RegisterBatchBody(files, registrations, json_ok, video_opens) ==
    IF ~json_ok THEN OtherException
    ELSE IF files # registrations THEN HTTPException(400)
    ELSE IF files > 0 /\ ~video_opens THEN HTTPException(400)
    ELSE Returned

\* the try block of detect_piracy: the image is decoded, then searched
DetectBody(decodable, detector_ok) ==
    IF ~decodable THEN HTTPException(400)
    ELSE IF ~detector_ok THEN OtherException
    ELSE Returned

\* except Exception as e: raise HTTPException(status_code=500, ...);
\* HTTPException is a subclass of Exception
ExceptException(out) == IF out.tag = "return" THEN out ELSE HTTPException(500)

\* the status the framework answers with: that of the HTTPException that
\* left the endpoint, 200 for a return, 500 for any other exception
StatusOf(out) == IF out.tag = "Exception" THEN 500 ELSE out.status

InitHttp ==
    /\ http = [log |-> <<>>]
    /\ lsb = <<>>
    /\ conn = <<>>
    /\ limiter = <<>>
    /\ engine = NoEngine
    /\ other = NoEngine
    /\ calls = <<>>
    /\ frame = NoFrame
    /\ wframe = NoFrame
    /\ op = "init"
    /\ msg = <<>>
    /\ data = <<>>
    /\ tamper = NoTamper
    /\ arg = NoArg
    /\ ret = None

\* POST /api/v1/content/register/batch
RegisterContentBatch(files, registrations, json_ok, video_opens) ==
    /\ Len(http.log) < MaxRequests
    /\ LET body == RegisterBatchBody(files, registrations, json_ok, video_opens)
       IN  http' = [http EXCEPT !.log = Append(@,
                       [endpoint |-> "register_content_batch", files |-> files,
                        registrations |-> registrations, body |-> body,
                        status |-> StatusOf(ExceptException(body))])]
    /\ UNCHANGED <<engineVars, lsb, conn, limiter>>

\* POST /api/v1/content/detect
DetectPiracy(decodable, detector_ok) ==
    /\ Len(http.log) < MaxRequests
    /\ LET body == DetectBody(decodable, detector_ok)
       IN  http' = [http EXCEPT !.log = Append(@,
                       [endpoint |-> "detect_piracy", files |-> 1, registrations |-> 0,
                        body |-> body, status |-> StatusOf(ExceptException(body))])]
    /\ UNCHANGED <<engineVars, lsb, conn, limiter>>

NextHttp ==
    \/ \E files \in 0..MaxFiles, registrations \in 0..MaxFiles, json_ok \in BOOLEAN,
          video_opens \in BOOLEAN :
           RegisterContentBatch(files, registrations, json_ok, video_opens)
    \/ \E decodable \in BOOLEAN, detector_ok \in BOOLEAN : DetectPiracy(decodable, detector_ok)

\* requests served one after another
SpecHttp == InitHttp /\ [][NextHttp]_vars

\* BlockIndex is the index of a position in the enumeration
BlockIndexAgrees ==
    LET bp == BlockPositions(frame.height, frame.width, engine.block_size)
    IN  \A k \in DOMAIN bp : BlockIndex(bp[k], frame.width, engine.block_size) = k - 1

\* Utf8Len is the length of the encoded message
Utf8LenAgrees == Len(msg) <= MaxMsgLen => Utf8Len(msg) = Len(Utf8Encode(msg))

(***************************************************************************)
(* The claims.                                                             *)
(***************************************************************************)
\* the bit frame of msg fits the caller's frame, three blocks a bit
FitsFrame == (3 * Len(EncodeMessage(msg))) <= NumBlocks(frame, engine.block_size)

\* the 16-bit big-endian length prefix of a bit list of at least 16 bits
PrefixOf(bits) == PackFrom(bits, 0, 0, 0) * 256 + PackFrom(bits, 8, 0, 0)

\* a Python value that tests false: None or the empty string
Falsy(r) == r.tag = "None" \/ (r.tag = "str" /\ r.val = <<>>)

\* C1: round trip.  A message whose bit frame fits the frame, embedded with
\* a positive strength and extracted with the length of the message (in
\* characters or in UTF-8 bytes), comes back exactly.  Stated for the
\* non-empty messages (the empty one comes back as None as well).
C1_RoundTrip ==
    (/\ op = "extract"
     /\ arg.src = "embedded"
     /\ msg # <<>>
     /\ arg.length \in {Len(msg), Len(Utf8Encode(msg))}
     /\ FitsFrame)
    => ret = Str(msg)

\* C2: capacity boundary.  Embedding a bit frame that needs more blocks than
\* the frame has fails with InsufficientCapacity and modifies no block; a
\* frame is returned only when every bit of the bit frame is carried.
\* Stated for the frames that have a block to modify.
C2_CapacityBoundary ==
    (op = "embed" /\ NumBlocks(frame, engine.block_size) > 0) =>
        IF (3 * Len(EncodeMessage(msg))) > NumBlocks(frame, engine.block_size)
        THEN ret.tag = "InsufficientCapacity" /\ wframe.y = frame.y
        ELSE ret.tag = "frame"

\* C3: decode is the inverse of encode.  Decoding the untouched bit frame
\* of a message returns that message, the empty one included.
C3_FramerRoundTrip ==
    (op = "decode" /\ tamper.kind = "none") => ret = Str(msg)

C3_Witness ==
    /\ op = "decode"
    /\ tamper.kind = "none"
    /\ Len(msg) = 2
    /\ msg[1] # msg[2]
    /\ ret = Str(msg)

\* C4: short input is rejected.  A bit list with length prefix n that holds
\* fewer than 24 + 8n bits decodes to the failure value.
C4_ShortInputRejected ==
    (/\ op = "decode"
     /\ Len(data) >= 16
     /\ Len(data) < 24 + (8 * PrefixOf(data)))
    => ret = None

\* C5: checksum rejection.  The bit frame of a message with one payload bit
\* flipped decodes to the failure value.
C5_ChecksumRejectsFlip ==
    (op = "decode" /\ tamper.kind = "flip" /\ tamper.at > 24) => ret = None

\* a flip that leaves the payload valid UTF-8: only the checksum rejects it
C5_Witness ==
    /\ op = "decode"
    /\ tamper.kind = "flip"
    /\ tamper.at > 24
    /\ Utf8Decode(SubSeq(PackedValues(data), 4, Len(data) \div 8)).ok
    /\ ret = None

\* C6: decode is total.  For every bit list the call returns a message or
\* None; no exception leaves it.
C6_DecodeTotal ==
    op = "decode" => /\ ret.tag \in {"str", "None"}
                     /\ ret.tag = "None" => ret.val = <<>>

\* an input on which the body of the try block raises
C6_Witness ==
    /\ op = "decode"
    /\ Len(data) >= 24
    /\ IsRaised(DecodeBody(data))
    /\ ret = None

\* C7: garbage input safety.  extract_watermark returns a message or None
\* for every frame and length, and when the length asks for more blocks
\* than the frame has it votes on all the blocks there are.
C7_ExtractNeverRaises ==
    op = "extract" =>
        LET f  == IF arg.src = "frame" THEN frame ELSE wframe
            nb == NumBlocks(f, engine.block_size)
        IN  /\ ret.tag \in {"str", "None"}
            /\ (3 * RequiredBlocks(arg.length)) > nb => Len(data) = (nb + 2) \div 3

\* extraction from a frame cut down below the grid used at embed time
C7_Witness ==
    /\ op = "extract"
    /\ arg.src = "cropped"
    /\ NumBlocks(wframe, engine.block_size) > 0
    /\ NumBlocks(wframe, engine.block_size) < NumBlocks(frame, engine.block_size)
    /\ (3 * RequiredBlocks(arg.length)) > NumBlocks(wframe, engine.block_size)
    /\ ret = None

\* C8: extraction data flow.  extract_watermark returns what _decode_message
\* returns on the list of voted bits, one element per logical bit (the
\* empty message counted as failure, as extract_watermark does).
C8_ExtractIsDecodeOfVotes ==
    op = "extract" =>
        LET decoded == DecodeMessage(data)
        IN  ret = IF Falsy(decoded) THEN None ELSE decoded

\* C9: extraction read length.  With enough blocks for 24 + 8L logical
\* bits, extract_watermark(frame, L) votes on at least 24 + 8L bits.
\* Stated for L >= 1.
C9_ExtractReadsWholeFrame ==
    (/\ op = "extract"
     /\ arg.length >= 1
     /\ NumBlocks(IF arg.src = "frame" THEN frame ELSE wframe, engine.block_size)
           >= 3 * (24 + (8 * arg.length)))
    => Len(data) >= 24 + (8 * arg.length)

\* C10: round trip with an upper bound on the length.  A non-empty message
\* whose bit frame fits the frame, extracted with length 1024, comes back
\* as a string that contains the message.
C10_RoundTripUpperBound ==
    (/\ op = "extract"
     /\ arg.src = "embedded"
     /\ arg.length = UpperBoundLength
     /\ msg # <<>>
     /\ FitsFrame)
    => (ret.tag = "str" /\ Contains(ret.val, msg))

\* the strength the last embed_watermark call used
StrengthUsed == IF arg.strength = <<>> THEN engine.strength ELSE arg.strength[1]

\* C11: redundancy granularity and capacity.  Each logical bit consumes one
\* block: a bit frame of at most as many bits as the plane has blocks is
\* embedded in full, bit k in the k-th block of the enumeration, and the
\* blocks after the last bit keep their coefficients.
C11_OneBlockPerBit ==
    LET bits == EncodeMessage(msg)
        bp   == BlockPositions(frame.height, frame.width, engine.block_size)
    IN  (op = "embed" /\ Len(bits) <= Len(bp)) =>
            \A k \in DOMAIN bp :
                wframe.y[bp[k]] = IF k <= Len(bits)
                                  THEN Modulate(frame.y[bp[k]], bits[k], StrengthUsed)
                                  ELSE frame.y[bp[k]]

\* C12: MessageTooLong is a typed result.  An embed_watermark call with a
\* message of more than 65535 UTF-8 bytes ends in the result MessageTooLong;
\* no exception leaves the call.
C12_MessageTooLongTyped ==
    (op \in {"embed", "raised"} /\ Utf8Len(msg) > MaxEncodable)
    => ret.tag = "MessageTooLong"

\* the instance that did not make the call
Peer(who) == IF who = "engine" THEN other ELSE engine

\* the frame the last extract_watermark call read
ExtractSource == IF arg.src = "frame" THEN frame ELSE wframe

\* what the instance that did not make the last call gives on its arguments
PeerAgrees ==
    /\ op = "embed" =>
          wframe = EmbedWatermark(Peer(arg.embedder), frame, msg, arg.strength)
    /\ op = "extract" =>
          /\ data = ExtractedBits(Peer(arg.extractor), ExtractSource, arg.length)
          /\ ret = ExtractWatermark(Peer(arg.extractor), ExtractSource, arg.length)

FailedText ==
    <<70, 97, 105, 108, 101, 100, 32, 116, 111, 32, 101, 120, 116, 114, 97, 99, 116,
      32, 119, 97, 116, 101, 114, 109, 97, 114, 107>>

\* C14: key separation as the test states it.  extract_watermark by an
\* instance with a different key, on a frame another instance embedded,
\* returns a string that contains 'Failed to extract watermark' and not the
\* message.
C14_KeySeparation ==
    (/\ op = "extract" /\ arg.src = "embedded"
     /\ arg.embedder = "engine" /\ arg.extractor = "other"
     /\ other.key # engine.key /\ msg # <<>>)
    => /\ ret.tag = "str"
       /\ Contains(ret.val, FailedText)
       /\ ~Contains(ret.val, msg)

\* what the call caller c is in returns when it runs alone on engine self
AloneOut(self, call) ==
    EmbedWatermark(self, call.frame, call.msg, call.strength)

AloneRet(self, call) == ExtractWatermark(self, call.frame, call.length)

\* C15: stateless engine under concurrent use.  No step of any interleaving
\* of embed_watermark and extract_watermark calls changes the engine's
\* block_size, strength or key (so they stay at their construction-time
\* values), and a call that ends returns what it returns when run alone.
C15_StatelessEngine ==
    [][/\ engine' = engine
       /\ \A c \in Callers :
             (calls[c].pc # "done" /\ calls'[c].pc = "done") =>
                 IF calls[c].kind = "embed"
                 THEN calls'[c].out = AloneOut(engine, calls[c])
                 ELSE calls'[c].ret = AloneRet(engine, calls[c])]_vars

\* an embed with the engine's strength ended while another caller was inside
\* an embed with a per-call strength
C15_Witness ==
    \E c, d \in Callers :
        /\ c # d
        /\ calls # <<>>
        /\ calls[c].pc = "embed_105" /\ calls[c].strength # <<>>
        /\ calls[d].pc = "done" /\ calls[d].kind = "embed" /\ calls[d].strength = <<>>
        /\ calls[d].out # calls[d].frame

\* C16: embed_watermark returns a new frame with the height, width and
\* channel count of its input and leaves the caller's frame as it was (also
\* when the call raises), for every frame and message.
C16_EmbedReturnsNewFrame ==
    [][(op = "init" /\ op' \in {"embed", "raised"}) =>
          /\ frame' = frame
          /\ op' = "embed" =>
                /\ wframe'.height = frame.height
                /\ wframe'.width = frame.width
                /\ wframe'.channels = frame.channels
                /\ DOMAIN wframe'.y = DOMAIN frame.y]_vars

\* an embed that returned a frame whose plane differs from the caller's
C16_Witness ==
    /\ op = "embed"
    /\ frame.channels = 3
    /\ <<wframe.height, wframe.width>> = <<frame.height, frame.width>>
    /\ \E p \in DOMAIN frame.y : wframe.y[p] # frame.y[p]

\* C17: block enumeration.  The list of block positions has
\* floor(H/b) * floor(W/b) entries, all multiples of b with the block inside
\* the plane, in row-major order from <<0, 0>>; and each logical bit that
\* extract_watermark reads on an embedded frame is read from the blocks
\* embed_watermark wrote that bit to, so it reads back as written.
C17_BlockEnumeration ==
    LET b    == engine.block_size
        H    == frame.height
        W    == frame.width
        bp   == BlockPositions(H, W, b)
        bits == EncodeMessage(msg)
    IN  /\ Len(bp) = (H \div b) * (W \div b)
        /\ \A k \in DOMAIN bp :
              /\ bp[k][1] % b = 0 /\ bp[k][2] % b = 0
              /\ bp[k][1] + b <= H /\ bp[k][2] + b <= W
              /\ IF k = 1 THEN bp[k] = <<0, 0>>
                 ELSE \/ bp[k] = <<bp[k - 1][1], bp[k - 1][2] + b>>
                      \/ /\ bp[k] = <<bp[k - 1][1] + b, 0>>
                         /\ bp[k - 1][2] + (2 * b) > W
        /\ (op = "extract" /\ arg.src = "embedded") =>
              \A i \in 1..Min(Len(data), Len(bits)) :
                  /\ data[i] = bits[i]
                  /\ \A offset \in 1..3 :
                        ((3 * (i - 1)) + offset) <= Len(bp) =>
                            LET p == bp[(3 * (i - 1)) + offset]
                            IN  wframe.y[p] = Modulate(frame.y[p], bits[i], StrengthUsed)

\* an extraction read a 0 bit and a 1 bit of the bit frame back from the
\* blocks they were written to
C17_Witness ==
    /\ op = "extract" /\ arg.src = "embedded"
    /\ LET bits == EncodeMessage(msg)
       IN  /\ \E i \in 1..Min(Len(data), Len(bits)) : data[i] = 0 /\ bits[i] = 0
           /\ \E i \in 1..Min(Len(data), Len(bits)) : data[i] = 1 /\ bits[i] = 1

Max(a, b) == IF a >= b THEN a ELSE b

\* C18: write_bit rule.  Every coefficient c of a block that embed_watermark
\* modulates with strength s becomes +max(|c|, s) for bit 1 and -max(|c|, s)
\* for bit 0.
C18_WriteBitMax ==
    op = "embed" =>
        LET bits == EncodeMessage(msg)
        IN  \A p \in DOMAIN frame.y :
                LET k == BlockIndex(p, frame.width, engine.block_size)
                IN  (k \div 3) < Len(bits) =>
                        \A q \in 1..3 :
                            wframe.y[p][q] =
                                IF bits[(k \div 3) + 1] = 1
                                THEN Max(Abs(frame.y[p][q]), StrengthUsed)
                                ELSE -Max(Abs(frame.y[p][q]), StrengthUsed)

\* C19: read_bit majority vote.  A block reads as 1 exactly when at least
\* two of its three modulated coefficients are positive; and with a strength
\* above 0 every block written with bit b reads back as b, before and after
\* the sign of one coefficient of one block is flipped.
C19_ReadBitMajority ==
    op \in {"embed", "noise"} =>
        LET bits == EncodeMessage(msg)
        IN  \A p \in DOMAIN wframe.y :
                LET c == wframe.y[p]
                    k == BlockIndex(p, frame.width, engine.block_size)
                IN  /\ ReadBit(c) <=> \/ (c[1] > 0 /\ c[2] > 0)
                                      \/ (c[1] > 0 /\ c[3] > 0)
                                      \/ (c[2] > 0 /\ c[3] > 0)
                    /\ (StrengthUsed > 0 /\ (k \div 3) < Len(bits)) =>
                          (ReadBit(c) <=> bits[(k \div 3) + 1] = 1)

\* the sign of a coefficient flipped in a block written with bit 1, another
\* block being written with bit 0
C19_Witness ==
    /\ op = "noise" /\ StrengthUsed > 0
    /\ LET bits == EncodeMessage(msg)
           k    == (tamper.at - 1) \div 3
       IN  /\ (k \div 3) < Len(bits)
           /\ bits[(k \div 3) + 1] = 1
           /\ \E p \in DOMAIN wframe.y :
                 LET j == BlockIndex(p, frame.width, engine.block_size)
                 IN  (j \div 3) < Len(bits) /\ bits[(j \div 3) + 1] = 0 /\ ~ReadBit(wframe.y[p])

\* the number a bit list spells, most significant bit first
RECURSIVE BinValue(_)
BinValue(bits) ==
    IF bits = <<>> THEN 0
    ELSE (2 * BinValue(SubSeq(bits, 1, Len(bits) - 1))) + bits[Len(bits)]

\* C20: bit-frame layout.  For a message of n <= 65535 UTF-8 bytes
\* _encode_message returns 24 + 8n bits: the 16-bit big-endian value n, the
\* 8-bit value (sum of the payload bytes) mod 256, then the payload bytes in
\* order, each most significant bit first; the prefix of every length up to
\* 65535 is that length in 16 bits, big-endian.
C20_BitFrameLayout ==
    /\ op = "encode" =>
          LET payload == Utf8Encode(msg)
              n       == Utf8Len(msg)
          IN  /\ n = Len(payload) /\ n <= MaxEncodable
              /\ Len(data) = 24 + (8 * n)
              /\ \A i \in DOMAIN data : data[i] \in {0, 1}
              /\ BinValue(SubSeq(data, 1, 16)) = n
              /\ BinValue(SubSeq(data, 17, 24)) = SumSeq(payload) % 256
              /\ \A j \in 1..n :
                    BinValue(SubSeq(data, 17 + (8 * j), 24 + (8 * j))) = payload[j]
    /\ op = "prefix" =>
          /\ Len(data) = 16
          /\ BinValue(data) = arg.length

\* a two-character message whose payload bytes sum to more than 255
C20_Witness ==
    /\ op = "encode"
    /\ Len(msg) = 2 /\ msg[1] # msg[2]
    /\ SumSeq(Utf8Encode(msg)) > 255
    /\ Len(data) = 24 + (8 * Utf8Len(msg))

\* C21: DecodeFailure at the API.  When extract_watermark returns the
\* failure value (None) for the uploaded image, /api/v1/content/verify
\* answers 200 with verified = false, not a 500-class status.  Stated for
\* the upload of a frame that embed_watermark returned.
C21_FailureIsNotVerified ==
    (op = "verify" /\ arg.src = "embedded"
                   /\ ExtractWatermark(engine, ExtractSource, UpperBoundLength) = None)
    => (ret.val.status = 200 /\ ret.val.verified = FALSE)

\* C22: validate_watermark returns a boolean for every frame: True when the
\* extracted watermark contains expected_text, False otherwise, also when
\* nothing can be extracted.  Stated for a non-empty expected_text.
C22_ValidateReturnsBool ==
    (op = "validate" /\ arg.expected # <<>>) =>
        LET extracted == ExtractWatermark(WatermarkEngine(DefaultBlockSize, DefaultStrength,
                                                          <<0, 1>>),
                                          ExtractSource, Len(arg.expected) * 8)
        IN  /\ ret.tag = "bool"
            /\ ret.val = (extracted.tag = "str" /\ Contains(extracted.val, arg.expected))

\* C23: frame effect of embed on the luma plane.  The first
\* min(3 * len(bits), number of blocks) blocks of the enumeration are the
\* modulated original blocks, every other block keeps its coefficients, and
\* every block written lies inside the block grid, so the residual strip
\* right of and below the grid is not written.
C23_EmbedChangesAssignedBlocks ==
    op = "embed" =>
        LET b       == engine.block_size
            bp      == BlockPositions(frame.height, frame.width, b)
            bits    == EncodeMessage(msg)
            changed == Min(3 * Len(bits), Len(bp))
        IN  /\ DOMAIN wframe.y = {bp[k] : k \in DOMAIN bp}
            /\ \A k \in DOMAIN bp :
                  /\ bp[k][1] + b <= (frame.height \div b) * b
                  /\ bp[k][2] + b <= (frame.width \div b) * b
                  /\ wframe.y[bp[k]] =
                        IF k <= changed
                        THEN Modulate(frame.y[bp[k]], bits[((k - 1) \div 3) + 1],
                                      StrengthUsed)
                        ELSE frame.y[bp[k]]

\* an embed that modulated some blocks and left textured blocks as they were
C23_Witness ==
    /\ op = "embed"
    /\ LET bp   == BlockPositions(frame.height, frame.width, engine.block_size)
           bits == EncodeMessage(msg)
       IN  /\ Len(bp) > 3 * Len(bits)
           /\ wframe.y[bp[1]] # frame.y[bp[1]]
           /\ wframe.y[bp[Len(bp)]] = frame.y[bp[Len(bp)]]
           /\ frame.y[bp[Len(bp)]] # <<0, 0, 0>>

\* C24: register-then-verify identity.  /verify/ of the image /register/
\* stored for content id c recovers exactly c from the watermark and
\* queries the registry and the fingerprint store with c.
C24_VerifyRecoversContentId ==
    (lsb # <<>> /\ lsb.op = "verify") => lsb.queried = Str(lsb.content_id)

\* C28: LSB round trip.  For an image of at least 32 + 8n pixels and a
\* watermark of n UTF-8 bytes, 1 <= n <= 1000, extraction from the embedded
\* image returns the watermark, and embed changes nothing but the least
\* significant bit of the red channel of the first 32 + 8n pixels.
C28_LsbRoundTrip ==
    (lsb # <<>> /\ lsb.via \in {"embed", "register"}) =>
        LET n == Utf8Len(lsb.watermark)
        IN  (n >= 1 /\ n <= MaxLsbLength /\ Len(lsb.image) >= 32 + (8 * n)) =>
                /\ lsb.out.tag = "image"
                /\ Len(lsb.out.val) = Len(lsb.image)
                /\ \A i \in DOMAIN lsb.image :
                      /\ lsb.out.val[i][2] = lsb.image[i][2]
                      /\ lsb.out.val[i][3] = lsb.image[i][3]
                      /\ lsb.out.val[i][1] \div 2 = lsb.image[i][1] \div 2
                      /\ i > 32 + (8 * n) => lsb.out.val[i] = lsb.image[i]
                /\ lsb.op \in {"extract", "verify"} => lsb.ret = Str(lsb.watermark)

\* a two-character watermark of six bytes came back from an image in which
\* embed changed some red values and that has pixels after the watermark
C28_Witness ==
    /\ lsb # <<>> /\ lsb.op = "extract" /\ lsb.via = "embed"
    /\ Len(lsb.watermark) = 2 /\ Utf8Len(lsb.watermark) = 6
    /\ Len(lsb.image) > 32 + 48
    /\ lsb.ret = Str(lsb.watermark)
    /\ \E i \in 1..80 : lsb.out.val[i] # lsb.image[i]

\* C25: Broadcast under interleaving.  A broadcast in progress never ends
\* with an exception, whatever connects or disconnects at its suspension
\* points, and when it returns it has attempted every connection that stayed
\* registered from its call to its return.
C25_BroadcastCompletes ==
    conn # <<>> =>
        /\ conn.bc.pc # "raised"
        /\ conn.bc.pc = "done" => conn.bc.stayed \subseteq conn.bc.attempted

\* C26: Connection registry invariant.  active_connections[client_id] holds
\* exactly the websockets whose handler connected them under that client and
\* has not ended, no client id maps to an empty set, and a websocket whose
\* handle_websocket loop ended is registered nowhere.
C26_RegistryInvariant ==
    conn # <<>> =>
        /\ \A c \in Clients :
               LET open == {ws \in WebSockets : ClientOf(ws) = c /\ conn.hs[ws] = "open"}
               IN  IF open = {} THEN c \notin DOMAIN conn.active
                   ELSE c \in DOMAIN conn.active /\ conn.active[c] = open
        /\ \A c \in DOMAIN conn.active : conn.active[c] # {}
        /\ \A ws \in WebSockets :
               conn.hs[ws] \in {"disconnected", "errored"}
                   => \A c \in DOMAIN conn.active : ws \notin conn.active[c]

\* one client's last websocket has left by WebSocketDisconnect and another's
\* by an error, while a third is still registered
C26_Witness ==
    /\ conn # <<>>
    /\ \E ws \in WebSockets : conn.hs[ws] = "disconnected" /\ ClientOf(ws) \notin DOMAIN conn.active
    /\ \E ws \in WebSockets : conn.hs[ws] = "errored"
    /\ \E ws \in WebSockets : conn.hs[ws] = "open" /\ ws \in conn.active[ClientOf(ws)]

\* C30: Client errors keep their status.  A request whose endpoint body
\* raised an HTTPException with a 4xx status is answered with that status:
\* 400 for a batch whose counts differ and for an undecodable image, never
\* 500.
C30_ClientErrorsKeepStatus ==
    http # <<>> =>
        \A i \in DOMAIN http.log :
            LET r == http.log[i]
            IN  (r.body.tag = "HTTPException" /\ r.body.status \in 400..499)
                    => r.status = r.body.status

\* the calls before call j that the same client made within the minute
\* preceding it and that returned True
AcceptedBefore(j) ==
    {i \in 1..(j - 1) : /\ limiter.log[i].client_id = limiter.log[j].client_id
                        /\ limiter.log[i].val
                        /\ limiter.log[i].now > limiter.log[j].now - TicksPerMinute}

\* C27: Rate limit bound.  Of one client's calls within an interval shorter
\* than a minute at most requests_per_minute return True; a call returns
\* False exactly when the client has requests_per_minute accepted calls in
\* the preceding minute; the stored list of a client holds accepted calls
\* only, so rejected calls are not counted.
C27_RateLimitBound ==
    limiter # <<>> =>
        LET log == limiter.log
            N == limiter.requests_per_minute
        IN  /\ \A j \in DOMAIN log : log[j].tag = "bool"
            /\ \A i \in DOMAIN log : \A j \in DOMAIN log :
                   (i <= j /\ log[j].now - log[i].now < TicksPerMinute)
                       => \A c \in Hosts :
                              Cardinality({k \in i..j : log[k].client_id = c /\ log[k].val}) <= N
            /\ \A j \in DOMAIN log :
                   /\ ~log[j].val => Cardinality(AcceptedBefore(j)) = N
                   /\ log[j].val => Cardinality(AcceptedBefore(j)) < N
            /\ \A c \in DOMAIN limiter.requests :
                   \A k \in DOMAIN limiter.requests[c] :
                       \E j \in DOMAIN log : /\ log[j].client_id = c /\ log[j].val
                                             /\ log[j].now = limiter.requests[c][k]
            /\ \A c \in DOMAIN limiter.requests :
                   Len(limiter.requests[c])
                       <= Cardinality({j \in DOMAIN log : log[j].client_id = c /\ log[j].val})

\* a client is refused at its limit, another client is served at the same
\* time, and the refused client is served again once a minute has passed
\* since its accepted calls
C27_Witness ==
    /\ limiter # <<>>
    /\ \E i \in DOMAIN limiter.log : \E j \in DOMAIN limiter.log : \E k \in DOMAIN limiter.log :
           /\ i < j /\ i < k
           /\ ~limiter.log[i].val
           /\ limiter.log[j].client_id = limiter.log[i].client_id
           /\ limiter.log[j].val
           /\ limiter.log[k].client_id # limiter.log[i].client_id
           /\ limiter.log[k].val
           /\ limiter.log[k].now = limiter.log[i].now

\* C29: Trailing bits are ignored by decode.  _decode_message of the bit
\* frame of m followed by any bits t returns m.
C29_TrailingBitsIgnored ==
    (op = "decode" /\ tamper.kind = "append") => ret = Str(msg)

\* a message of several bytes decoded with a tail that ends inside a byte,
\* and with a tail of more than one byte
C29_Witness ==
    /\ op = "decode"
    /\ tamper.kind = "append"
    /\ tamper.at \in {3, 9}
    /\ Len(data) = 24 + 8 * Utf8Len(msg) + tamper.at
    /\ Utf8Len(msg) >= 2
    /\ ret = Str(msg)

====
